---- MODULE Spec2Model ----
(***************************************************************************)
(* Treasury canister: transfer orchestration and transfer history.         *)
(*                                                                         *)
(* One action of the canister is one message execution: the code that     *)
(* runs from the arrival of a call (or of a reply) up to the next await or *)
(* the return.  The calls to the management canister and to the ledger are *)
(* the suspension points; the ledger is a separate canister whose steps    *)
(* (LedgerBalanceOf, LedgerTransfer) interleave with the treasury's.       *)
(***************************************************************************)
EXTENDS Integers, Sequences, FiniteSets, TLC

\* ------------------------------------------------------------------ bounds

\* Number of execute requests submitted in one behaviour.
MaxReq == 2
\* Longest recipient list of a batch request.
MaxRecipients == 2
\* Largest initial treasury balance on the ledger.
MaxBalance == 2
\* Width of the amount type: u64 is modelled with WordBits bits.
WordBits == 2
\* Number of get_transfer_history queries in one behaviour.
MaxReads == 2

Modulus == 2 ^ WordBits
U64Max == Modulus - 1
\* A large amount: two of them overflow the amount type.
Half == Modulus \div 2

\* ------------------------------------------------------------------ values

Anonymous == "anonymous"
Controller == "ctl"
Callers == {Controller, "eve"}
Receivers == {Anonymous, "p1"}
LedgerIds == {Anonymous, "ledger"}
Amounts == {0, 1, Half}

\* The recipients of a batch: every amount to a named principal, and the
\* anonymous principal with an amount that passes the amount check.
PrincipalTransfer ==
    [receiving_principal : Receivers \ {Anonymous}, amount : Amounts] \cup
    [receiving_principal : {Anonymous}, amount : {1}]

TransferToPrincipal ==
    [receiving_principal : Receivers, amount : Amounts, ledger_id : LedgerIds]

SeqsUpTo(S, n) == UNION {[1..k -> S] : k \in 0..n}

TransferToMultiple ==
    [principals : SeqsUpTo(PrincipalTransfer, MaxRecipients), ledger_id : LedgerIds]

\* What canister_status can answer: the controller set, or an error whose
\* text mentions the principals in `mentions`.
StatusOutcomes ==
    {[tag |-> "ok", who |-> {Controller}]} \cup
    {[tag |-> "err", who |-> m] : m \in {{}, {"eve"}}}

NoStatus == [tag |-> "none", who |-> {}]

NoResp == [tag |-> "none", val |-> 0]
NoResult == [tag |-> "none", val |-> 0]
NoArg == [ledger_id |-> Anonymous]

Idle ==
    [pc |-> "idle", kind |-> "none", caller |-> Anonymous, arg |-> NoArg,
     idx |-> 0, status |-> NoStatus, resp |-> NoResp, result |-> NoResult, key |-> 0,
     bal |-> -1, nStatus |-> 0, nBalance |-> 0, calls |-> <<>>,
     inflight |-> 0, paid |-> 0]

VARIABLES
    history,         \* TRANSFER_HISTORY: key -> TransferHistory
    req,             \* the execute requests and where each is suspended
    balance,         \* the treasury's balance on the ledger
    blocks,          \* length of the ledger's own log
    completed,       \* ids of the requests that returned Ok, in that order
    overflowChecks,  \* the build's overflow-checks setting
    reads            \* the get_transfer_history queries answered so far

vars == <<history, req, balance, blocks, completed, overflowChecks, reads>>

\* No query answered yet; afterwards: how many were, how many appends had
\* happened when the last one ran, and what it returned.
NoRead == [count |-> 0, at |-> 0, seq |-> <<>>]

Reqs == 1..MaxReq

Res(t, v) == [tag |-> t, val |-> v]

\* ------------------------------------------------------------ pure helpers

\* iter().map(|p| p.amount).sum() with overflow checks on: -1 stands for the
\* panic "attempt to add with overflow".
RECURSIVE CheckedSum(_)
CheckedSum(ps) ==
    IF Len(ps) = 0 THEN 0
    ELSE LET acc == CheckedSum(SubSeq(ps, 1, Len(ps) - 1)) IN
         IF acc = -1 \/ acc + ps[Len(ps)].amount > U64Max THEN -1
         ELSE acc + ps[Len(ps)].amount

\* The same sum with overflow checks off: every addition wraps.
RECURSIVE WrappingSum(_)
WrappingSum(ps) ==
    IF Len(ps) = 0 THEN 0
    ELSE (WrappingSum(SubSeq(ps, 1, Len(ps) - 1)) + ps[Len(ps)].amount) % Modulus

\* total_amount: u64 as the build computes it (-1: the message traps).
TotalAmount(ps) == IF overflowChecks THEN CheckedSum(ps) ELSE WrappingSum(ps)

FirstZero(ps) ==
    CHOOSE i \in 1..Len(ps) :
        ps[i].amount = 0 /\ \A j \in 1..(i - 1) : ps[j].amount # 0

validate_transfer_to_multiple(arg) ==
    IF Len(arg.principals) = 0 THEN Res("NoPrincipals", 0)
    ELSE IF \E i \in 1..Len(arg.principals) : arg.principals[i].amount = 0
        THEN Res("ZeroAmount", FirstZero(arg.principals))
    ELSE IF arg.ledger_id = Anonymous THEN Res("InvalidLedger", 0)
    ELSE IF TotalAmount(arg.principals) = -1 THEN Res("Trap", 0)
    ELSE Res("Ok", TotalAmount(arg.principals))

\* A validation that forgets the amount check.
validate_transfer_to_principal_no_amount(arg) ==
    IF arg.receiving_principal = Anonymous THEN Res("AnonymousReceiver", 0)
    ELSE IF arg.ledger_id = Anonymous THEN Res("InvalidLedger", 0)
    ELSE Res("Ok", arg.amount)

validate_transfer_to_principal(arg) ==
    IF arg.amount = 0 THEN Res("ZeroAmount", 0)
    ELSE IF arg.receiving_principal = Anonymous THEN Res("AnonymousReceiver", 0)
    ELSE IF arg.ledger_id = Anonymous THEN Res("InvalidLedger", 0)
    ELSE Res("Ok", arg.amount)

Validate(kind, arg) ==
    IF kind = "single" THEN validate_transfer_to_principal(arg)
    ELSE validate_transfer_to_multiple(arg)

\* A guard without the fallback: a failed canister_status refuses everyone.
is_controller_fail_closed(result, principal) ==
    result.tag = "ok" /\ principal \in result.who

\* A guard that lets every caller through when canister_status fails.
is_controller_fail_open(result, principal) ==
    result.tag = "err" \/ principal \in result.who

\* is_controller: membership in the controllers canister_status reports, or,
\* when the call fails, the caller's text occurring in the error's text.
is_controller(result, principal) == principal \in result.who

\* A sufficiency check that is off by one.
InsufficientBalanceOffByOne(bal, amount) == bal <= amount

\* A sufficiency check that lets every request through.
InsufficientBalanceNever(bal, amount) == FALSE

\* balance < NumTokens::from(amount), on unbounded naturals.
InsufficientBalance(bal, amount) == bal < amount

\* A loop that visits the recipients last to first.
RecipientsReversed(kind, arg) ==
    IF kind = "single"
    THEN <<[receiving_principal |-> arg.receiving_principal, amount |-> arg.amount]>>
    ELSE [i \in 1..Len(arg.principals) |-> arg.principals[Len(arg.principals) + 1 - i]]

\* The recipients of a request in the order the code visits them: the one
\* destination of a single transfer, the loop over arg.principals of a batch.
Recipients(kind, arg) ==
    IF kind = "single"
    THEN <<[receiving_principal |-> arg.receiving_principal, amount |-> arg.amount]>>
    ELSE arg.principals

\* The amount the sufficiency check compares with the balance.
Requested(kind, arg) ==
    IF kind = "single" THEN arg.amount ELSE TotalAmount(arg.principals)

\* A transfer that sends one token less than asked.
TransferArgShort(p, ledger_id) ==
    [to |-> p.receiving_principal, amount |-> p.amount - 1, ledger |-> ledger_id]

TransferArg(p, ledger_id) ==
    [to |-> p.receiving_principal, amount |-> p.amount, ledger |-> ledger_id]

\* A transfer_tokens that looks at the call's outcome only, not at the
\* Result the ledger sent back.
transfer_tokens_outer_only(resp) ==
    IF resp.tag = "callerr" THEN Res("CallFailed", 0) ELSE Res("Ok", resp.val)

\* A transfer whose result is not looked at: every reply counts as success.
transfer_tokens_unchecked(resp) ==
    Res("Ok", IF resp.tag = "ok" THEN resp.val ELSE 0)

\* transfer_tokens: the reply of icrc1_transfer as the Result the caller sees.
transfer_tokens(resp) ==
    IF resp.tag = "callerr" THEN Res("CallFailed", 0)
    ELSE IF resp.tag = "ledgererr" THEN Res("LedgerRejected", 0)
    ELSE Res("Ok", resp.val)

\* A balance query whose failure reads as an empty account.
get_tokens_balance_default_zero(resp) ==
    IF resp.tag = "callerr" THEN Res("Ok", 0) ELSE Res("Ok", resp.val)

\* get_tokens_balance: the reply of icrc1_balance_of as the Result.
get_tokens_balance(resp) ==
    IF resp.tag = "callerr" THEN Res("CallFailed", 0) ELSE Res("Ok", resp.val)

TransferHistory(kind, arg) ==
    [tag |-> IF kind = "single" THEN "TransferToPrincipal" ELSE "TransferToMultiple",
     arg |-> arg]

\* StableBTreeMap::len and StableBTreeMap::insert.
MapLen(h) == Cardinality(DOMAIN h)

MapInsert(h, k, v) == [x \in DOMAIN h \cup {k} |-> IF x = k THEN v ELSE h[x]]

\* An append that numbers the records from 0.
InsertKeyZeroBased(id) == id

\* An append that always writes the first slot.
InsertKeyFirst(id) == 1

\* An append that writes the last used slot instead of the next free one.
InsertKeyLast(id) == IF id = 0 THEN 1 ELSE id

\* The key the new record is inserted at: id + 1, id = history.len().
InsertKey(id) == id + 1

RECURSIVE Ascending(_)
Ascending(S) ==
    IF S = {} THEN <<>>
    ELSE LET m == CHOOSE x \in S : \A y \in S : x <= y
         IN <<m>> \o Ascending(S \ {m})

\* get_transfer_history: the values in ascending key order.
get_transfer_history(h) ==
    LET ks == Ascending(DOMAIN h) IN [i \in 1..Len(ks) |-> h[ks[i]]]

\* ------------------------------------------------------------------ state

Init ==
    /\ history = <<>>
    /\ req = [r \in Reqs |-> Idle]
    /\ balance \in 0..MaxBalance
    /\ blocks = 0
    /\ completed = <<>>
    /\ overflowChecks \in BOOLEAN
    /\ reads = NoRead

\* The request returns `res` to its caller; its frame (caller, replies) is gone.
Return(r, res) ==
    req' = [req EXCEPT ![r].pc = "done", ![r].result = res, ![r].caller = Anonymous,
                       ![r].status = NoStatus, ![r].resp = NoResp]

\* The request issues the transfer call for its k-th recipient and suspends.
IssueTransfer(r, k, bal) ==
    LET rq == req[r]
        p == Recipients(rq.kind, rq.arg)[k]
    IN req' = [req EXCEPT ![r].pc = "transfer", ![r].idx = k, ![r].bal = bal,
                          ![r].resp = NoResp,
                          ![r].calls = Append(@, TransferArg(p, rq.arg.ledger_id)),
                          ![r].inflight = @ + 1]

\* ---------------------------------------------------------------- actions

\* An execute call arrives (requests are numbered in the order submitted):
\* the code up to the await of canister_status inside is_controller.
Submit(r) ==
    /\ req[r].pc = "idle"
    /\ \A q \in Reqs : q < r => req[q].pc # "idle"
    /\ \E caller \in Callers, outcome \in StatusOutcomes :
          \/ \E arg \in TransferToPrincipal :
                req' = [req EXCEPT ![r] = [Idle EXCEPT !.pc = "status", !.kind = "single",
                                                       !.caller = caller, !.arg = arg,
                                                       !.status = outcome, !.nStatus = 1]]
          \/ \E arg \in TransferToMultiple :
                req' = [req EXCEPT ![r] = [Idle EXCEPT !.pc = "status", !.kind = "multiple",
                                                       !.caller = caller, !.arg = arg,
                                                       !.status = outcome, !.nStatus = 1]]
    /\ UNCHANGED <<history, balance, blocks, completed, overflowChecks, reads>>

\* A guard that asks canister_status once more when the call failed.
StatusReplyRetries(r) ==
    /\ req[r].pc = "status"
    /\ LET rq == req[r]
           v == Validate(rq.kind, rq.arg)
       IN IF rq.status.tag = "err" /\ rq.nStatus = 1
          THEN \E outcome \in StatusOutcomes :
                  req' = [req EXCEPT ![r].status = outcome, ![r].nStatus = @ + 1]
          ELSE IF ~is_controller(rq.status, rq.caller) THEN Return(r, Res("Unauthorized", 0))
          ELSE IF v.tag # "Ok" THEN Return(r, v)
          ELSE req' = [req EXCEPT ![r].pc = "balance", ![r].caller = Anonymous,
                                  ![r].status = NoStatus, ![r].nBalance = @ + 1]
    /\ UNCHANGED <<history, balance, blocks, completed, overflowChecks, reads>>

\* The answer of canister_status arrives: the rest of is_controller, the validation, and
\* the code up to the await of icrc1_balance_of.
StatusReply(r) ==
    /\ req[r].pc = "status"
    /\ LET rq == req[r]
           v == Validate(rq.kind, rq.arg)
       IN IF ~is_controller(rq.status, rq.caller) THEN Return(r, Res("Unauthorized", 0))
          ELSE IF v.tag # "Ok" THEN Return(r, v)
          ELSE req' = [req EXCEPT ![r].pc = "balance", ![r].caller = Anonymous,
                                  ![r].status = NoStatus, ![r].nBalance = @ + 1]
    /\ UNCHANGED <<history, balance, blocks, completed, overflowChecks, reads>>

\* The ledger answers icrc1_balance_of, or the call fails.
LedgerBalanceOf(r) ==
    /\ req[r].pc = "balance"
    /\ req[r].resp = NoResp
    /\ \/ req' = [req EXCEPT ![r].resp = Res("ok", balance)]
       \/ req' = [req EXCEPT ![r].resp = Res("callerr", 0)]
    /\ UNCHANGED <<history, balance, blocks, completed, overflowChecks, reads>>

\* The balance arrives: the sufficiency check and the first transfer call.
BalanceReply(r) ==
    /\ req[r].pc = "balance"
    /\ req[r].resp # NoResp
    /\ LET rq == req[r]
           b == get_tokens_balance(rq.resp)
           total == Requested(rq.kind, rq.arg)
       IN IF b.tag # "Ok" THEN Return(r, b)
          ELSE IF total = -1 THEN Return(r, Res("Trap", 0))
          ELSE IF InsufficientBalance(b.val, total)
              THEN req' = [req EXCEPT ![r].pc = "done", ![r].resp = NoResp,
                                      ![r].bal = b.val,
                                      ![r].result = Res("InsufficientBalance", 0)]
          ELSE IssueTransfer(r, 1, b.val)
    /\ UNCHANGED <<history, balance, blocks, completed, overflowChecks, reads>>

\* The ledger executes icrc1_transfer (debits the treasury, extends its log),
\* rejects it, or the call fails.
LedgerTransfer(r) ==
    /\ req[r].pc = "transfer"
    /\ req[r].resp = NoResp
    /\ LET c == req[r].calls[Len(req[r].calls)] IN
       \/ /\ c.ledger # Anonymous
          /\ balance >= c.amount
          /\ balance' = balance - c.amount
          /\ blocks' = blocks + 1
          /\ req' = [req EXCEPT ![r].resp = Res("ok", blocks), ![r].paid = @ + 1]
       \/ /\ c.ledger # Anonymous
          /\ req' = [req EXCEPT ![r].resp = Res("ledgererr", 0)]
          /\ UNCHANGED <<balance, blocks>>
       \/ /\ req' = [req EXCEPT ![r].resp = Res("callerr", 0)]
          /\ UNCHANGED <<balance, blocks>>
    /\ UNCHANGED <<history, completed, overflowChecks, reads>>

\* The transfer's reply arrives: `?` on its result, then the next recipient's
\* call, or the append to TRANSFER_HISTORY and the return.
TransferReply(r) ==
    /\ req[r].pc = "transfer"
    /\ req[r].resp # NoResp
    /\ LET rq == req[r]
           t == transfer_tokens(rq.resp)
           n == Len(Recipients(rq.kind, rq.arg))
           id == MapLen(history)
       IN IF t.tag # "Ok"
          THEN /\ req' = [req EXCEPT ![r].pc = "done", ![r].resp = NoResp,
                                     ![r].inflight = @ - 1, ![r].result = t]
               /\ UNCHANGED <<history, completed>>
          ELSE IF rq.idx < n
          THEN /\ LET p == Recipients(rq.kind, rq.arg)[rq.idx + 1] IN
                  req' = [req EXCEPT ![r].idx = @ + 1, ![r].resp = NoResp,
                                     ![r].calls = Append(@, TransferArg(p, rq.arg.ledger_id))]
               /\ UNCHANGED <<history, completed>>
          ELSE /\ history' = MapInsert(history, InsertKey(id), TransferHistory(rq.kind, rq.arg))
               /\ completed' = Append(completed, r)
               /\ req' = [req EXCEPT ![r].pc = "done", ![r].resp = NoResp,
                                     ![r].inflight = @ - 1, ![r].key = InsertKey(id),
                                     ![r].result =
                                         Res("Ok", IF rq.kind = "single" THEN t.val ELSE 0)]
    /\ UNCHANGED <<balance, blocks, overflowChecks, reads>>

\* The Result<String, String> of a validation endpoint: the summary text (its
\* total is kept) or the validation's error.
PreviewResult(v) == IF v.tag = "Ok" THEN Res("Summary", v.val) ELSE v

\* A preview that asks the guard before it validates.
PreviewGuarded(r) ==
    /\ req[r].pc = "idle"
    /\ \A q \in Reqs : q < r => req[q].pc # "idle"
    /\ \E caller \in Callers, arg \in TransferToPrincipal :
          req' = [req EXCEPT ![r] = [Idle EXCEPT !.pc = "done", !.kind = "validate_single",
                                                 !.caller = caller, !.arg = arg,
                                                 !.nStatus = 1,
                                                 !.result = Res("Unauthorized", 0)]]
    /\ UNCHANGED <<history, balance, blocks, completed, overflowChecks, reads>>

\* A preview that records what it validated in the history.
PreviewRecorded(r) ==
    /\ req[r].pc = "idle"
    /\ \A q \in Reqs : q < r => req[q].pc # "idle"
    /\ \E caller \in Callers, arg \in TransferToPrincipal :
          /\ req' = [req EXCEPT ![r] = [Idle EXCEPT !.pc = "done", !.kind = "validate_single",
                                                    !.caller = caller, !.arg = arg,
                                                    !.result = PreviewResult(
                                                        validate_transfer_to_principal(arg))]]
          /\ history' = MapInsert(history, InsertKey(MapLen(history)),
                                  TransferHistory("single", arg))
    /\ UNCHANGED <<balance, blocks, completed, overflowChecks, reads>>

\* A call of validate_transfer_to_principal or validate_transfer_to_multiple
\* as an endpoint: it has no await, so the call runs to its return in one
\* message execution.
Preview(r) ==
    /\ req[r].pc = "idle"
    /\ \A q \in Reqs : q < r => req[q].pc # "idle"
    /\ \E caller \in Callers :
          \/ \E arg \in TransferToPrincipal :
                req' = [req EXCEPT ![r] = [Idle EXCEPT !.pc = "done", !.kind = "validate_single",
                                                       !.caller = caller, !.arg = arg,
                                                       !.result = PreviewResult(
                                                           validate_transfer_to_principal(arg))]]
          \/ \E arg \in TransferToMultiple :
                req' = [req EXCEPT ![r] = [Idle EXCEPT !.pc = "done", !.kind = "validate_multiple",
                                                       !.caller = caller, !.arg = arg,
                                                       !.result = PreviewResult(
                                                           validate_transfer_to_multiple(arg))]]
    /\ UNCHANGED <<history, balance, blocks, completed, overflowChecks, reads>>

Next ==
    \E r \in Reqs :
        \/ Submit(r)
        \/ StatusReply(r)
        \/ LedgerBalanceOf(r)
        \/ BalanceReply(r)
        \/ LedgerTransfer(r)
        \/ TransferReply(r)

Spec == Init /\ [][Next]_vars

\* Every remote call returns: a suspended request's ledger answers and the
\* canister receives each answer (the assumption under which termination is
\* claimed; the system delivers a response to every call).
Fairness ==
    \A r \in Reqs :
        /\ WF_vars(StatusReply(r))
        /\ WF_vars(LedgerBalanceOf(r))
        /\ WF_vars(BalanceReply(r))
        /\ WF_vars(LedgerTransfer(r))
        /\ WF_vars(TransferReply(r))

\* The runs that start with a full treasury.
InitFair == Init /\ balance = MaxBalance

SpecFair == InitFair /\ [][Next]_vars /\ Fairness

\* A query that writes to the log: it appends a record of its own.
QueryRecorded ==
    /\ reads.count < MaxReads
    /\ reads' = [count |-> reads.count + 1, at |-> Len(completed),
                 seq |-> get_transfer_history(history)]
    /\ history' = MapInsert(history, InsertKey(MapLen(history)),
                            TransferHistory("multiple",
                                [principals |-> <<>>, ledger_id |-> Anonymous]))
    /\ UNCHANGED <<req, balance, blocks, completed, overflowChecks>>

\* #[query] get_transfer_history: one message, no await; it returns the
\* records in key order and writes nothing.
QueryHistory ==
    /\ reads.count < MaxReads
    /\ reads' = [count |-> reads.count + 1, at |-> Len(completed),
                 seq |-> get_transfer_history(history)]
    /\ UNCHANGED <<history, req, balance, blocks, completed, overflowChecks>>

\* The execute operations together with the history query.
NextQuery == Next \/ QueryHistory

SpecQuery == Init /\ [][NextQuery]_vars

\* The execute operations together with the validation endpoints.
NextPreview == Next \/ \E r \in Reqs : Preview(r)

SpecPreview == Init /\ [][NextPreview]_vars

\* ------------------------------------------------------------------ claims

Reply(r) == req[r].pc = "status" /\ req'[r].pc # "status"

ValidationErrors == {"NoPrincipals", "ZeroAmount", "AnonymousReceiver", "InvalidLedger"}

\* What the claim calls a request that fails validation.
Invalid(kind, arg) ==
    IF kind = "single"
    THEN arg.amount = 0 \/ arg.receiving_principal = Anonymous \/ arg.ledger_id = Anonymous
    ELSE \/ arg.principals = <<>>
         \/ \E i \in 1..Len(arg.principals) : arg.principals[i].amount = 0
         \/ arg.ledger_id = Anonymous

\* Nothing of request r has reached the ledger or the history.
Untouched(r) ==
    /\ req[r].nBalance = 0
    /\ req[r].calls = <<>>
    /\ \A i \in 1..Len(completed) : completed[i] # r

\* C1: when the guard's answer for the caller is false (the caller is not
\* among the principals canister_status reports or mentions), the request
\* returns Unauthorized in that step, with no balance query, no transfer call
\* and the history as it was; and no later step changes that.
C1_Unauthorized ==
    /\ [][\A r \in Reqs :
            (Reply(r) /\ req[r].caller \notin req[r].status.who) =>
                /\ req'[r].pc = "done"
                /\ req'[r].result = Res("Unauthorized", 0)
                /\ req'[r].nBalance = 0
                /\ req'[r].calls = <<>>
                /\ history' = history]_vars
    /\ [](\A r \in Reqs : req[r].result.tag = "Unauthorized" => Untouched(r))

\* C1 witness: a batch request that passes the validation was refused as
\* unauthorized while the history holds a record.
C1_Witness ==
    /\ history # <<>>
    /\ \E r \in Reqs : /\ req[r].result.tag = "Unauthorized"
                       /\ req[r].kind = "multiple"
                       /\ ~Invalid(req[r].kind, req[r].arg)

\* C2: an authorized caller's request that fails validation returns a
\* validation error in the step that validates it, with no balance query, no
\* transfer call and the history as it was; and no later step changes that.
C2_InvalidNoLedgerCall ==
    /\ [][\A r \in Reqs :
            (/\ Reply(r)
             /\ req[r].caller \in req[r].status.who
             /\ Invalid(req[r].kind, req[r].arg)) =>
                /\ req'[r].pc = "done"
                /\ req'[r].result.tag \in ValidationErrors
                /\ req'[r].nBalance = 0
                /\ req'[r].calls = <<>>
                /\ history' = history]_vars
    /\ [](\A r \in Reqs : req[r].result.tag \in ValidationErrors => Untouched(r))

\* C2 witness: a single request with amount 0 and a batch with an empty list
\* were both refused by the validation.
C2_Witness ==
    /\ \E r \in Reqs : /\ req[r].kind = "single"
                       /\ req[r].arg.amount = 0
                       /\ req[r].result.tag = "ZeroAmount"
    /\ \E r \in Reqs : /\ req[r].kind = "multiple"
                       /\ req[r].arg.principals = <<>>
                       /\ req[r].result.tag = "NoPrincipals"

BalanceArrives(r) ==
    /\ req[r].pc = "balance"
    /\ req'[r].pc # "balance"
    /\ req[r].resp.tag = "ok"

\* C3: when the balance arrives for a single request, a balance below the
\* amount ends the request with InsufficientBalance, no transfer call and the
\* history as it was; any other balance makes it issue the transfer call.
C3_SingleSufficiency ==
    [][\A r \in Reqs :
          (BalanceArrives(r) /\ req[r].kind = "single") =>
              IF req[r].resp.val < req[r].arg.amount
              THEN /\ req'[r].pc = "done"
                   /\ req'[r].result = Res("InsufficientBalance", 0)
                   /\ req'[r].calls = <<>>
                   /\ history' = history
              ELSE /\ req'[r].pc = "transfer"
                   /\ Len(req'[r].calls) = 1]_vars

\* C3 witness: one single request was refused for a balance below its amount and
\* another one, whose balance equalled its amount, has issued its transfer.
C3_Witness ==
    /\ \E r \in Reqs : /\ req[r].kind = "single"
                       /\ req[r].result.tag = "InsufficientBalance"
                       /\ req[r].bal < req[r].arg.amount
                       /\ req[r].calls = <<>>
    /\ \E r \in Reqs : /\ req[r].kind = "single"
                       /\ req[r].bal = req[r].arg.amount
                       /\ Len(req[r].calls) = 1

RECURSIVE TrueSum(_)
TrueSum(ps) ==
    IF Len(ps) = 0 THEN 0 ELSE TrueSum(SubSeq(ps, 1, Len(ps) - 1)) + ps[Len(ps)].amount

\* C4: a batch whose amounts add up (as unbounded numbers) to more than the
\* balance the ledger reported has returned InsufficientBalance and issued no
\* transfer call.
C4_BatchTrueTotal ==
    \A r \in Reqs :
        (/\ req[r].kind = "multiple"
         /\ req[r].bal # -1
         /\ TrueSum(req[r].arg.principals) > req[r].bal) =>
            /\ req[r].result.tag = "InsufficientBalance"
            /\ req[r].calls = <<>>

TransferFails(r) ==
    /\ req[r].pc = "transfer"
    /\ req'[r] # req[r]
    /\ req[r].resp.tag \in {"callerr", "ledgererr"}

\* C5: when the transfer call for recipient k of a batch fails, the request
\* ends in that step with the call's error; by then it has issued the calls
\* for recipients 1..k and no other, the ledger has executed those for
\* 1..k-1, and the step adds no call, no history record and no refund.
C5_FailFast ==
    [][\A r \in Reqs :
          (TransferFails(r) /\ req[r].kind = "multiple") =>
              /\ req'[r].pc = "done"
              /\ req'[r].result.tag =
                     (IF req[r].resp.tag = "callerr" THEN "CallFailed" ELSE "LedgerRejected")
              /\ req'[r].calls = req[r].calls
              /\ Len(req[r].calls) = req[r].idx
              /\ req[r].paid = req[r].idx - 1
              /\ req'[r].paid = req[r].paid
              /\ history' = history
              /\ completed' = completed
              /\ balance' = balance]_vars

\* C5 witness: one batch of two failed at its first recipient and never called
\* the second; another failed at its second recipient after the first was paid.
C5_Witness ==
    /\ \E r \in Reqs : /\ req[r].kind = "multiple"
                       /\ req[r].result.tag = "LedgerRejected"
                       /\ Len(req[r].arg.principals) = 2
                       /\ Len(req[r].calls) = 1
                       /\ req[r].paid = 0
    /\ \E r \in Reqs : /\ req[r].kind = "multiple"
                       /\ req[r].result.tag \in {"LedgerRejected", "CallFailed"}
                       /\ Len(req[r].calls) = 2
                       /\ req[r].paid = 1
    /\ history = <<>>

\* C6: the transfer calls a batch has issued are those of its first recipients,
\* in list order and one per recipient, and at most one of them is outstanding:
\* a call is outstanding exactly while the request is suspended on it.
C6_SequentialOrder ==
    \A r \in Reqs :
        req[r].kind = "multiple" =>
            /\ Len(req[r].calls) <= Len(req[r].arg.principals)
            /\ \A i \in 1..Len(req[r].calls) :
                  req[r].calls[i] =
                      [to |-> req[r].arg.principals[i].receiving_principal,
                       amount |-> req[r].arg.principals[i].amount,
                       ledger |-> req[r].arg.ledger_id]
            /\ req[r].inflight = (IF req[r].pc = "transfer" THEN 1 ELSE 0)
            /\ req[r].pc = "transfer" => Len(req[r].calls) = req[r].idx

\* C6 witness: a batch has issued the calls for two different recipients.
C6_Witness ==
    \E r \in Reqs : /\ req[r].kind = "multiple"
                    /\ Len(req[r].calls) = 2
                    /\ req[r].calls[1] # req[r].calls[2]
                    /\ req[r].pc = "transfer"

OkReqs == {r \in Reqs : req[r].result.tag = "Ok"}

RecordOf(r) ==
    [tag |-> IF req[r].kind = "single" THEN "TransferToPrincipal" ELSE "TransferToMultiple",
     arg |-> req[r].arg]

\* C7: the history lists the records of the requests that returned success,
\* one each, in the order in which the requests were submitted.
C7_SubmissionOrder ==
    LET ok == Ascending(OkReqs) IN
    get_transfer_history(history) = [i \in 1..Len(ok) |-> RecordOf(ok[i])]

\* C7 (amended): the history holds exactly one record per request that
\* returned success, and get_transfer_history lists them in the order in which
\* those requests returned.
C7_CompletionOrder ==
    /\ MapLen(history) = Cardinality(OkReqs)
    /\ Len(completed) = Cardinality(OkReqs)
    /\ get_transfer_history(history) =
           [i \in 1..Len(completed) |-> RecordOf(completed[i])]

\* C7 witness: a batch submitted second returned before a single transfer
\* submitted first, and both are in the history.
C7_Witness ==
    /\ completed = <<2, 1>>
    /\ req[1].kind = "single"
    /\ req[2].kind = "multiple"
    /\ Len(get_transfer_history(history)) = 2

TransferReturns(r) ==
    /\ req[r].pc = "transfer"
    /\ req'[r] # req[r]
    /\ req[r].resp # NoResp

\* C8: a single request whose balance suffices issues one transfer call, to
\* its ledger with its destination and amount; when the call succeeds the
\* request returns the block index the ledger answered and the history gains
\* one record, equal to the request; when it fails the request returns the
\* error and the history is as it was. It never issues a second call.
C8_SingleTransfer ==
    [][\A r \in Reqs :
          req[r].kind = "single" =>
              /\ (BalanceArrives(r) /\ req[r].resp.val >= req[r].arg.amount) =>
                     req'[r].calls = <<[to |-> req[r].arg.receiving_principal,
                                        amount |-> req[r].arg.amount,
                                        ledger |-> req[r].arg.ledger_id]>>
              /\ TransferReturns(r) =>
                     /\ req'[r].pc = "done"
                     /\ req'[r].calls = req[r].calls
                     /\ Len(req[r].calls) = 1
                     /\ IF req[r].resp.tag = "ok"
                        THEN /\ req'[r].result = Res("Ok", req[r].resp.val)
                             /\ \E k \in DOMAIN history' \ DOMAIN history :
                                   /\ DOMAIN history' = DOMAIN history \cup {k}
                                   /\ history'[k] = RecordOf(r)
                             /\ \A k \in DOMAIN history : history'[k] = history[k]
                        ELSE /\ req'[r].result.tag \in {"CallFailed", "LedgerRejected"}
                             /\ history' = history]_vars

\* C8 witness: a single transfer returned the ledger's second block index and
\* its record is the only one in the history, the other request having failed
\* after the ledger executed one of its transfers.
C8_Witness ==
    \E r \in Reqs : /\ req[r].kind = "single"
                    /\ req[r].result = Res("Ok", 1)
                    /\ Len(req[r].calls) = 1
                    /\ get_transfer_history(history) = <<RecordOf(r)>>

\* C9: no transfer call names the anonymous principal as its destination or
\* as its ledger.
C9_NoAnonymousCall ==
    \A r \in Reqs : \A i \in 1..Len(req[r].calls) :
        req[r].calls[i].to # Anonymous /\ req[r].calls[i].ledger # Anonymous

\* C10: the requests that returned success have different sequence numbers,
\* each finds its own record at its number, and a step never removes or
\* changes a record that is in the history.
C10_NoCollision ==
    /\ [](\A r \in OkReqs :
             /\ req[r].key \in DOMAIN history
             /\ history[req[r].key] = RecordOf(r)
             /\ \A q \in OkReqs : q # r => req[q].key # req[r].key)
    /\ [][\A k \in DOMAIN history :
             k \in DOMAIN history' /\ history'[k] = history[k]]_vars

\* C10 witness: two requests were suspended on their transfer calls together,
\* and the one submitted second got the first sequence number.
C10_Witness ==
    /\ MapLen(history) = 2
    /\ req[1].key = 2
    /\ req[2].key = 1
    /\ history[1] # history[2]

ExecuteKinds == {"single", "multiple"}
PreviewKinds == {"validate_single", "validate_multiple"}

\* The call of operation r has just been received.
Called(r) == req[r].pc = "idle" /\ req'[r].pc # "idle"

\* C11: every operation, executing or validating, has asked the guard once
\* it is called: no operation answers without the guard's call before it.
C11_GuardFirst ==
    \A r \in Reqs : req[r].pc # "idle" => req[r].nStatus = 1

\* C11 (amended): an executing operation asks the guard as soon as it is
\* called and, when the guard answers false, returns Unauthorized in the step
\* that receives the answer, whatever the validation would say, with no balance
\* query and no transfer call; a validating operation called as an endpoint
\* asks no guard and returns what the validation says, to every caller.
C11_GuardOnExecute ==
    /\ [][\A r \in Reqs :
            /\ (Called(r) /\ req'[r].kind \in ExecuteKinds) =>
                   /\ req'[r].pc = "status"
                   /\ req'[r].nStatus = 1
                   /\ req'[r].result = NoResult
            /\ (Reply(r) /\ req[r].caller \notin req[r].status.who) =>
                   /\ req'[r].result = Res("Unauthorized", 0)
                   /\ req'[r].nBalance = 0
                   /\ req'[r].calls = <<>>
            /\ (Called(r) /\ req'[r].kind \in PreviewKinds) =>
                   /\ req'[r].nStatus = 0
                   /\ req'[r].pc = "done"
                   /\ req'[r].result.tag # "Unauthorized"]_vars
    /\ [](\A r \in Reqs : req[r].kind \in ExecuteKinds => req[r].nStatus = 1)

\* C11 witness: an executing request that the validation would refuse too
\* was refused as unauthorized, and a validation endpoint answered a caller
\* who is no controller with a summary.
C11_Witness ==
    /\ \E r \in Reqs : /\ req[r].kind \in ExecuteKinds
                       /\ req[r].result.tag = "Unauthorized"
                       /\ Invalid(req[r].kind, req[r].arg)
    /\ \E r \in Reqs : /\ req[r].kind = "validate_multiple"
                       /\ req[r].caller = "eve"
                       /\ req[r].nStatus = 0
                       /\ req[r].result.tag = "Summary"

\* What the claim says the guard answers.
GuardSays(r) ==
    \/ req[r].status.tag = "ok" /\ req[r].caller \in req[r].status.who
    \/ req[r].status.tag = "err" /\ req[r].caller \in req[r].status.who

\* C12: the guard lets a request pass exactly when canister_status answered
\* with a controller set that holds the caller, or failed with an error text
\* that holds the caller's identifier; so a request that has issued a balance
\* query or a transfer call went through a guard for which one of the two held.
C12_GuardExactly ==
    /\ [][\A r \in Reqs :
            Reply(r) =>
                /\ GuardSays(r) <=> req'[r].result.tag # "Unauthorized"
                /\ req'[r].nBalance > 0 => GuardSays(r)]_vars
    /\ [](\A r \in Reqs :
            (req[r].nBalance > 0 \/ req[r].calls # <<>>) =>
                /\ req[r].nStatus = 1
                /\ req[r].pc \notin {"idle", "status"}
                /\ req[r].result.tag # "Unauthorized")

\* C12 witness: one request has passed the guard and issued its balance query
\* while another, whose canister_status call failed with an error text that
\* holds its caller's identifier, is at the guard's second case.
C12_Witness ==
    /\ \E r \in Reqs : /\ req[r].pc = "balance"
                       /\ req[r].nBalance = 1
    /\ \E r \in Reqs : /\ req[r].pc = "status"
                       /\ req[r].status.tag = "err"
                       /\ req[r].caller \in req[r].status.who
                       /\ GuardSays(r)

\* C13: a call of a validation endpoint returns in one step, to every caller,
\* what the validation says (never Unauthorized); it asks no guard, issues no
\* balance query and no transfer call, and leaves the history, the ledger and
\* every other request as they were.
C13_PreviewFrame ==
    [][\A r \in Reqs :
          (Called(r) /\ req'[r].kind \in PreviewKinds) =>
              /\ req'[r].pc = "done"
              /\ req'[r].result.tag \in ValidationErrors \cup {"Summary", "Trap"}
              /\ req'[r].nStatus = 0
              /\ req'[r].nBalance = 0
              /\ req'[r].calls = <<>>
              /\ history' = history
              /\ completed' = completed
              /\ balance' = balance
              /\ blocks' = blocks
              /\ \A q \in Reqs \ {r} : req'[q] = req[q]]_vars

\* C13 witness: with a record in the history, a caller who is no controller
\* previewed a single transfer and got its summary.
C13_Witness ==
    /\ MapLen(history) = 1
    /\ \E r \in Reqs : /\ req[r].kind = "validate_single"
                       /\ req[r].caller = "eve"
                       /\ req[r].result.tag = "Summary"
                       /\ req[r].nStatus = 0

\* A get_transfer_history query has just been answered.
Queried == reads'.count = reads.count + 1

\* C14: a get_transfer_history query returns the records of the log in key
\* order and changes neither the log nor the ledger nor any request (it issues
\* no call); and when no append happened since the previous query, it returns
\* the sequence that query returned.
C14_ReadsIdempotent ==
    [][Queried =>
          /\ reads'.seq = get_transfer_history(history)
          /\ history' = history
          /\ req' = req
          /\ balance' = balance
          /\ blocks' = blocks
          /\ completed' = completed
          /\ (reads.count > 0 /\ reads.at = Len(completed)) =>
                 reads'.seq = reads.seq]_vars

\* C14 witness: two queries were answered with no append between them, on a
\* log that holds a record, and both returned that record.
C14_Witness ==
    /\ reads.count = 2
    /\ reads.at = Len(completed)
    /\ Len(reads.seq) = 1
    /\ reads.seq = get_transfer_history(history)

\* C15: the keys of the history are exactly 1..n for its n records (slot 0 is
\* never used, there is no gap); an append adds the one key n + 1, above every
\* key in use, and leaves every earlier record under its key.
C15_KeysGapFree ==
    /\ [](DOMAIN history = 1..MapLen(history))
    /\ [][history' # history =>
             /\ DOMAIN history' = DOMAIN history \cup {MapLen(history) + 1}
             /\ \A k \in DOMAIN history : k < MapLen(history) + 1 /\ history'[k] = history[k]
             /\ MapLen(history') = MapLen(history) + 1]_vars

\* C15 witness: two appends happened and the records sit under keys 1 and 2.
C15_Witness ==
    /\ Len(completed) = 2
    /\ DOMAIN history = {1, 2}
    /\ \A r \in Reqs : req[r].key \in {1, 2}

\* Number of transfer calls request r has to make.
NumCalls(r) == Len(Recipients(req[r].kind, req[r].arg))

\* C16: every record of the history belongs to one execute request that
\* returned success, holds that whole request (one record for a batch), and
\* was appended in the step that received the success of the request's last
\* transfer call, every call of the request having succeeded by then; there are
\* as many records as successful requests, and a request that returned an
\* error has no record.
C16_RecordsOnlySuccess ==
    /\ [](\A k \in DOMAIN history :
            \E r \in Reqs :
                /\ req[r].key = k
                /\ req[r].kind \in ExecuteKinds
                /\ req[r].pc = "done" /\ req[r].result.tag = "Ok"
                /\ history[k] = RecordOf(r)
                /\ Len(req[r].calls) = NumCalls(r)
                /\ req[r].paid = NumCalls(r))
    /\ [](MapLen(history) = Cardinality(OkReqs))
    /\ [](\A r \in Reqs :
            (req[r].pc = "done" /\ req[r].result.tag # "Ok") =>
                /\ req[r].key = 0
                /\ \A i \in 1..Len(completed) : completed[i] # r)
    /\ [][history' # history =>
             \E r \in Reqs :
                 /\ req[r].pc = "transfer" /\ req[r].resp.tag = "ok"
                 /\ req[r].idx = NumCalls(r)
                 /\ req[r].paid = NumCalls(r)
                 /\ req'[r].result.tag = "Ok"
                 /\ history' = MapInsert(history, req'[r].key, RecordOf(r))]_vars

\* C16 witness: a batch of two recipients was paid in full and has its one
\* record, while a request whose transfer the ledger rejected has none.
C16_Witness ==
    /\ MapLen(history) = 1
    /\ \E r \in Reqs : /\ req[r].kind = "multiple"
                       /\ req[r].result.tag = "Ok"
                       /\ req[r].paid = 2
                       /\ history[1] = RecordOf(r)
    /\ \E r \in Reqs : /\ req[r].result.tag = "LedgerRejected"
                       /\ req[r].key = 0

\* The answer the claim gives for a validation: the first condition that
\* holds, in the stated order, or success.
ClaimedAnswer(kind, arg) ==
    IF kind = "validate_single"
    THEN IF arg.amount = 0 THEN "ZeroAmount"
         ELSE IF arg.receiving_principal = Anonymous THEN "AnonymousReceiver"
         ELSE IF arg.ledger_id = Anonymous THEN "InvalidLedger"
         ELSE "Summary"
    ELSE IF arg.principals = <<>> THEN "NoPrincipals"
         ELSE IF \E i \in 1..Len(arg.principals) : arg.principals[i].amount = 0
             THEN "ZeroAmount"
         ELSE IF arg.ledger_id = Anonymous THEN "InvalidLedger"
         ELSE "Summary"

\* C17: a validation reports the first failing check in the stated order (for
\* a batch's zero amount, the first such recipient in list order), and returns
\* success exactly when no check fails.
C17_ValidationOrder ==
    \A r \in Reqs :
        (req[r].pc = "done" /\ req[r].kind \in PreviewKinds) =>
            /\ req[r].result.tag = ClaimedAnswer(req[r].kind, req[r].arg)
            /\ (req[r].kind = "validate_multiple" /\ req[r].result.tag = "ZeroAmount") =>
                   /\ req[r].arg.principals[req[r].result.val].amount = 0
                   /\ \A j \in 1..(req[r].result.val - 1) :
                          req[r].arg.principals[j].amount # 0

\* The failure of request r's balance query has just been received.
BalanceFails(r) ==
    /\ req[r].pc = "balance"
    /\ req'[r].pc # "balance"
    /\ req[r].resp.tag = "callerr"

\* C18: when the balance query fails, the request returns the call's error
\* in the step that receives it (not the insufficient-balance error, not
\* success), having issued no transfer call, and the history and the ledger are
\* as they were; the request never gets a record afterwards.
C18_BalanceFailure ==
    /\ [][\A r \in Reqs :
            BalanceFails(r) =>
                /\ req'[r].pc = "done"
                /\ req'[r].result = Res("CallFailed", 0)
                /\ req'[r].calls = <<>>
                /\ req'[r].key = 0
                /\ history' = history
                /\ completed' = completed
                /\ balance' = balance
                /\ blocks' = blocks]_vars
    /\ [](\A r \in Reqs :
            (req[r].result.tag = "CallFailed" /\ req[r].calls = <<>>) =>
                /\ req[r].pc = "done"
                /\ req[r].nBalance = 1
                /\ req[r].key = 0
                /\ \A i \in 1..Len(completed) : completed[i] # r)

\* C18 witness: a single transfer the treasury could pay returned the balance
\* query's failure without a transfer call, with a record of another request
\* in the history.
C18_Witness ==
    /\ MapLen(history) = 1
    /\ \E r \in Reqs : /\ req[r].kind = "single"
                       /\ req[r].result.tag = "CallFailed"
                       /\ req[r].nBalance = 1
                       /\ req[r].calls = <<>>
                       /\ balance >= req[r].arg.amount
                       /\ req[r].key = 0

\* C19: every submitted execute request returns (success or an error), and
\* at every moment it has issued at most one canister_status call, at most one
\* balance query and at most one transfer call per recipient, each call being
\* the one for the next recipient in order: no call is issued again.
C19_Terminates ==
    /\ \A r \in Reqs : (req[r].pc # "idle") ~> (req[r].pc = "done")
    /\ [](\A r \in Reqs :
            /\ req[r].nStatus <= 1
            /\ req[r].nBalance <= 1
            /\ req[r].kind \in ExecuteKinds => Len(req[r].calls) <= NumCalls(r)
            /\ \A i \in 1..Len(req[r].calls) :
                   req[r].calls[i] = TransferArg(Recipients(req[r].kind, req[r].arg)[i],
                                                 req[r].arg.ledger_id))

\* C19 witness: both requests have returned after their steps interleaved:
\* a batch whose second transfer call failed returned that error after exactly
\* two calls, and the other request returned success.
C19_Witness ==
    /\ \A r \in Reqs : req[r].pc = "done" /\ req[r].nStatus = 1
    /\ \E r \in Reqs : /\ req[r].kind = "multiple"
                       /\ req[r].result.tag = "CallFailed"
                       /\ req[r].nBalance = 1
                       /\ Len(req[r].calls) = 2
                       /\ req[r].paid = 1
    /\ \E r \in Reqs : req[r].result.tag = "Ok" /\ req[r].key = 1

\* Request r has just issued a transfer call.
Issues(r) == Len(req'[r].calls) = Len(req[r].calls) + 1

\* What request r still has to pay when it issues its k-th call.
Remainder(r, k) ==
    LET ps == Recipients(req[r].kind, req[r].arg) IN TrueSum(SubSeq(ps, k, Len(ps)))

\* C20: whenever a request issues a transfer call, the treasury's balance on
\* the ledger at that moment is at least what the request still has to pay
\* (the single amount, or the amounts of the batch's recipients from this one
\* on), whatever other requests did in between.
C20_BalanceStillCovers ==
    [][\A r \in Reqs :
          Issues(r) => balance >= Remainder(r, Len(req'[r].calls))]_vars

\* C20 (amended): the balance a request's balance query returns is the
\* ledger's at the time of the query; the request issues transfer calls only
\* if that value was at least the amount its check compared (the single
\* amount, or the batch total as total_amount computes it), and it never looks
\* at the balance again.
C20_CheckedAtQuery ==
    /\ [][\A r \in Reqs :
            /\ (req[r].pc = "balance" /\ req[r].resp = NoResp /\ req'[r].resp.tag = "ok") =>
                   req'[r].resp.val = balance
            /\ (BalanceArrives(r) /\ req'[r].calls # <<>>) =>
                   /\ req[r].resp.val >= Requested(req[r].kind, req[r].arg)
                   /\ req'[r].bal = req[r].resp.val
            /\ req[r].pc = "transfer" =>
                   req'[r].bal = req[r].bal /\ req'[r].nBalance = 1]_vars
    /\ [](\A r \in Reqs :
            req[r].calls # <<>> =>
                /\ req[r].nBalance = 1
                /\ req[r].bal >= Requested(req[r].kind, req[r].arg))

\* C20 witness: a single transfer passed its check on a balance that covered
\* it and has its call in flight, while another request's transfer has taken
\* the balance below the amount.
C20_Witness ==
    \E r \in Reqs :
        /\ req[r].kind = "single"
        /\ req[r].pc = "transfer" /\ req[r].resp = NoResp
        /\ req[r].bal >= req[r].arg.amount
        /\ balance < req[r].arg.amount
        /\ \E q \in Reqs \ {r} : req[q].paid > 0

====
